---- MODULE Spec2Model ----
(***************************************************************************)
(* GstBaseRTPAudioPayload (gst-libs/gst/rtp/gstbasertpaudiopayload.c):     *)
(* the base class that cuts constant-bitrate audio into RTP packets.       *)
(*                                                                         *)
(* The state is the object (payload: the public geometry fields, priv: the *)
(* private struct, basepayload: the fields of the parent class the code    *)
(* reads), the locals of gst_base_rtp_audio_payload_handle_buffer while it *)
(* is in its slicing loop, the packets handed to the sink and the chunks   *)
(* received.  The pending bytes live in a GstAdapter, which also keeps the *)
(* last timestamp it saw and the bytes flushed since.                      *)
(*                                                                         *)
(* Time is counted in milliseconds, not nanoseconds (GST_MSECOND = 1,      *)
(* GST_SECOND = 1000), so that the products of the scaling functions stay  *)
(* inside TLC's integers; every ptime and duration of the model is a whole *)
(* number of milliseconds.  All byte counts of the model stay far below    *)
(* 2^32, the width of guint, so no length wraps.                           *)
(***************************************************************************)
EXTENDS Integers, Sequences, FiniteSets, TLC

\* ---------------------------------------------------------------- bounds
\* bytes delivered to handle_buffer in one behaviour, over all chunks
MaxBytes == 3
\* packets the sink rejects in one behaviour
MaxFail == 1
\* the widest sample, in bits, of the behaviours that only set sample options
MaxSampleBits == 24

\* ------------------------------------------------------------- constants
GST_MSECOND == 1
GST_SECOND == 1000
\* "unset": maxptime_octets = G_MAXUINT (the largest integer of the model)
G_MAXUINT == 2147483647
\* payload_len == -1: flush all pending bytes
ALL == -1
\* max_ptime == -1: no upper bound on the packet duration
PTIME_UNSET == -1
\* fixed RTP header, no CSRC, no padding
RTP_HEADER_LEN == 12
\* payload_len of handle_buffer before the loop assigned it
NoVal == -1
\* no timestamp; also the timestamp argument of flush that asks for the
\* timestamp the adapter recorded
GST_CLOCK_TIME_NONE == -1

\* the values the inputs are drawn from
FrameSizes == {0, 2}
FrameDurations == {0, 2}
SampleBits == {0, 8}
SampleBytes == {2}
\* mtu, max_ptime and min_ptime (ms), clock_rate (Hz): a payload capacity of 4
\* bytes and of 1 byte without bounds on the packet duration, and a capacity of
\* 4 bytes with a largest and a smallest packet duration of 3 ms
Transports ==
  {[mtu |-> 16, max_ptime |-> PTIME_UNSET, min_ptime |-> 0, clock_rate |-> 1000],
   [mtu |-> 13, max_ptime |-> PTIME_UNSET, min_ptime |-> 0, clock_rate |-> 1000],
   [mtu |-> 16, max_ptime |-> 3, min_ptime |-> 3, clock_rate |-> 1000]}
SinkResults == {"OK", "FAIL"}
Upstreams == {"stamped", "unstamped"}

VARIABLES
  payload,          \* GstBaseRTPAudioPayload: frame_size, frame_duration, sample_size
  priv,             \* GstBaseRTPAudioPayloadPrivate
  basepayload,      \* GstBaseRTPPayload: mtu, max_ptime, min_ptime, clock_rate
  upstream,         \* the element upstream: "stamped" when its buffers carry timestamps
  pc,               \* "idle", or "loop": handle_buffer is at its while test
  available,        \* locals of handle_buffer
  payload_len,
  min_payload_len,
  max_payload_len,
  align,
  ret,              \* ret of handle_buffer; at "idle", what the last call returned
  sent,             \* the packets handed to gst_basertppayload_push, in order
  delivered,        \* bytes of all chunks given to handle_buffer
  dropped,          \* bytes discarded: a cleared adapter, a chunk unref'd on config_error
  ndiscont,         \* chunks that carried GST_BUFFER_FLAG_DISCONT
  chunks            \* the chunks given to handle_buffer, in order

vars == <<payload, priv, basepayload, upstream, pc, available, payload_len, min_payload_len,
          max_payload_len, align, ret, sent, delivered, dropped, ndiscont, chunks>>

locals == <<available, payload_len, min_payload_len, max_payload_len, align>>

\* GST_BUFFER_TIMESTAMP of the next chunk: the running time of a stream that
\* delivers one byte per second, or none when upstream does not stamp
BufferTimestamps ==
  IF upstream = "stamped" THEN {delivered * GST_SECOND} ELSE {GST_CLOCK_TIME_NONE}

\* ---------------------------------------------------------------- macros
MIN(a, b) == IF a < b THEN a ELSE b

MAX(a, b) == IF a > b THEN a ELSE b

ALIGN_DOWN(val, len) == val - (val % len)

\* val * num / denom, rounded down
gst_util_uint64_scale(val, num, denom) == (val * num) \div denom

\* the payload bytes an RTP packet of mtu bytes can carry
gst_rtp_buffer_calc_payload_len(mtu) ==
  IF mtu < RTP_HEADER_LEN THEN 0 ELSE mtu - RTP_HEADER_LEN

\* -------------------------------------------------------------- GstAdapter
\* The adapter: data are the pending bytes; stamp[i] is the timestamp of the
\* buffer whose first byte is data[i] (GST_CLOCK_TIME_NONE where no buffer
\* starts, where it has no timestamp, and at the head, whose timestamp is
\* already recorded); timestamp and distance are the last timestamp seen and
\* the bytes flushed since.
GST_CLOCK_TIME_IS_VALID(time) == time # GST_CLOCK_TIME_NONE

gst_adapter_new ==
  [data |-> <<>>, stamp |-> <<>>, timestamp |-> GST_CLOCK_TIME_NONE, distance |-> 0]

gst_adapter_available(adapter) == Len(adapter.data)

\* a buffer pushed into an empty adapter records its timestamp, if it has one
gst_adapter_push(adapter, buffer) ==
  LET size == Len(buffer.data)
      head == adapter.data = <<>>
      recorded == head /\ GST_CLOCK_TIME_IS_VALID(buffer.timestamp)
  IN [data      |-> adapter.data \o buffer.data,
      stamp     |-> adapter.stamp \o
                    [i \in 1..size |->
                       IF i = 1 /\ ~head THEN buffer.timestamp
                       ELSE GST_CLOCK_TIME_NONE],
      timestamp |-> IF recorded THEN buffer.timestamp ELSE adapter.timestamp,
      distance  |-> IF recorded THEN 0 ELSE adapter.distance]

gst_adapter_copy(adapter, offset, size) ==
  SubSeq(adapter.data, offset + 1, offset + size)

\* mutant: the flushed bytes stay in the adapter
gst_adapter_flush_nothing(adapter, flush) == adapter

\* flush bytes leave; a buffer that becomes the head records its timestamp,
\* if it has one, and the distance counts the bytes flushed since
gst_adapter_flush(adapter, flush) ==
  LET n == Len(adapter.data)
      heads == {k \in 2..MIN(flush + 1, n) :
                  GST_CLOCK_TIME_IS_VALID(adapter.stamp[k])}
      last == CHOOSE k \in heads : \A j \in heads : j <= k
  IN [data      |-> SubSeq(adapter.data, flush + 1, n),
      stamp     |-> [i \in 1..(n - flush) |->
                       IF i = 1 THEN GST_CLOCK_TIME_NONE
                       ELSE adapter.stamp[flush + i]],
      timestamp |-> IF heads # {} THEN adapter.stamp[last] ELSE adapter.timestamp,
      distance  |-> IF heads # {} THEN flush + 1 - last
                    ELSE adapter.distance + flush]

gst_adapter_prev_timestamp(adapter) ==
  [timestamp |-> adapter.timestamp, distance |-> adapter.distance]

gst_adapter_clear(adapter) == gst_adapter_new

\* ------------------------------------------------------- length functions
gst_base_rtp_audio_payload_get_frame_lengths ==
  IF payload.frame_size = 0 \/ payload.frame_duration = 0
  THEN [ok |-> FALSE, min_payload_len |-> 0, max_payload_len |-> 0, align |-> 0]
  ELSE
    LET frame_size == payload.frame_size
        frame_duration == payload.frame_duration * GST_MSECOND
        maxptime_octets ==
          IF basepayload.max_ptime # PTIME_UNSET
          THEN MAX(frame_size,
                   gst_util_uint64_scale(frame_size, basepayload.max_ptime,
                                         frame_duration))
          ELSE G_MAXUINT
        max_frames ==
          ALIGN_DOWN(gst_rtp_buffer_calc_payload_len(basepayload.mtu), frame_size)
        max_len == MIN(max_frames, maxptime_octets)
        minptime_octets ==
          gst_util_uint64_scale(frame_size, basepayload.min_ptime, frame_duration)
        min_len == MAX(minptime_octets, frame_size)
    IN [ok |-> TRUE,
        min_payload_len |-> IF min_len > max_len THEN max_len ELSE min_len,
        max_payload_len |-> max_len,
        align |-> frame_size]

gst_base_rtp_audio_payload_get_sample_lengths ==
  IF payload.sample_size = 0
  THEN [ok |-> FALSE, min_payload_len |-> 0, max_payload_len |-> 0, align |-> 0]
  ELSE
    LET maxptime_octets ==
          IF basepayload.max_ptime # PTIME_UNSET
          THEN gst_util_uint64_scale(basepayload.max_ptime * 8,
                                     basepayload.clock_rate,
                                     payload.sample_size * GST_SECOND)
          ELSE G_MAXUINT
        max_len ==
          MIN(gst_rtp_buffer_calc_payload_len(basepayload.mtu), maxptime_octets)
        minptime_octets ==
          gst_util_uint64_scale(basepayload.min_ptime * 8, basepayload.clock_rate,
                                payload.sample_size * GST_SECOND)
        min_len == MAX(minptime_octets, priv.fragment_size)
    IN [ok |-> TRUE,
        min_payload_len |-> IF min_len > max_len THEN max_len ELSE min_len,
        max_payload_len |-> max_len,
        align |-> priv.fragment_size]

\* priv->get_lengths (basepayload, &min_payload_len, &max_payload_len, &align)
get_lengths ==
  IF priv.get_lengths = "frame"
  THEN gst_base_rtp_audio_payload_get_frame_lengths
  ELSE gst_base_rtp_audio_payload_get_sample_lengths

\* ------------------------------------------------------ rtptime functions
gst_base_rtp_audio_payload_get_frame_rtptime(bytes) ==
  LET duration ==
        (bytes \div payload.frame_size) * (payload.frame_duration * GST_MSECOND)
  IN gst_util_uint64_scale(duration, basepayload.clock_rate, GST_SECOND)

gst_base_rtp_audio_payload_get_sample_rtptime(bytes) ==
  (bytes * 8) \div payload.sample_size

\* priv->get_rtptime (payload, bytes), in the mode p has selected
get_rtptime(p, bytes) ==
  IF p.get_rtptime = "frame"
  THEN gst_base_rtp_audio_payload_get_frame_rtptime(bytes)
  ELSE gst_base_rtp_audio_payload_get_sample_rtptime(bytes)

\* ----------------------------------------------------- duration functions
gst_base_rtp_audio_payload_get_frame_duration(bytes) ==
  (bytes \div payload.frame_size) * (payload.frame_duration * GST_MSECOND)

gst_base_rtp_audio_payload_get_sample_duration(bytes) ==
  gst_util_uint64_scale(bytes * 8, GST_SECOND,
                        basepayload.clock_rate * payload.sample_size)

\* priv->get_duration (payload, bytes), in the mode p has selected
get_duration(p, bytes) ==
  IF p.get_duration = "frame"
  THEN gst_base_rtp_audio_payload_get_frame_duration(bytes)
  ELSE gst_base_rtp_audio_payload_get_sample_duration(bytes)

\* ---------------------------------------------------------- packet builder
\* mutant: the discont flag is not cleared
gst_base_rtp_audio_payload_set_meta_keeps_discont(p, len, timestamp) ==
  [marker    |-> p.discont,
   timestamp |-> timestamp,
   offset    |-> get_rtptime(p, p.offset),
   priv      |-> [p EXCEPT !.offset = @ + len]]

\* mutant: the running offset is not advanced
gst_base_rtp_audio_payload_set_meta_keeps_offset(p, len, timestamp) ==
  [marker    |-> p.discont,
   timestamp |-> timestamp,
   offset    |-> get_rtptime(p, p.offset),
   priv      |-> [p EXCEPT !.discont = FALSE]]

\* The metadata of a packet of len bytes built in private state p, and
\* p after it: the marker is the discont flag, which is cleared; the offset
\* field is the RTP time of the running offset, which then advances.
gst_base_rtp_audio_payload_set_meta(p, len, timestamp) ==
  [marker    |-> p.discont,
   timestamp |-> timestamp,
   offset    |-> get_rtptime(p, p.offset),
   priv      |-> [p EXCEPT !.discont = FALSE, !.offset = @ + len]]

\* A packet as the sink sees it.  path says which code built it; call names
\* the call of handle_buffer that built it (the bytes delivered up to and with
\* that call's chunk, which differ from call to call), 0 outside such a call.
Packet(data, meta, res, path, call) ==
  [payload |-> data, marker |-> meta.marker, timestamp |-> meta.timestamp,
   offset |-> meta.offset, res |-> res, path |-> path, call |-> call]

\* mutant: the packet does not get the timestamp passed in
gst_base_rtp_audio_payload_push_unstamped(p, data, len, timestamp, res, path, call) ==
  LET meta == gst_base_rtp_audio_payload_set_meta(p, len, GST_CLOCK_TIME_NONE)
  IN [priv |-> meta.priv,
      pkts |-> <<Packet(SubSeq(data, 1, len), meta, res, path, call)>>,
      ret  |-> res]

\* gst_base_rtp_audio_payload_push: a packet from payload_len bytes of data.
\* The result: the private state, the packets handed to the sink, the return.
gst_base_rtp_audio_payload_push(p, data, len, timestamp, res, path, call) ==
  LET meta == gst_base_rtp_audio_payload_set_meta(p, len, timestamp)
  IN [priv |-> meta.priv,
      pkts |-> <<Packet(SubSeq(data, 1, len), meta, res, path, call)>>,
      ret  |-> res]

\* mutant: the recorded timestamp is used without the duration of the distance
auto_timestamp_no_distance(p) == gst_adapter_prev_timestamp(p.adapter).timestamp

\* if (timestamp == -1): the timestamp the adapter recorded, plus the duration
\* of the bytes flushed since when it is valid and bytes were flushed since
auto_timestamp(p) ==
  LET prev == gst_adapter_prev_timestamp(p.adapter)
  IN IF GST_CLOCK_TIME_IS_VALID(prev.timestamp) /\ prev.distance > 0
     THEN prev.timestamp + get_duration(p, prev.distance)
     ELSE prev.timestamp

\* mutant: payload_len == -1 flushes one byte, not all pending bytes
gst_base_rtp_audio_payload_flush_one(p, len, timestamp, res, path, call) ==
  LET n == IF len = ALL THEN MIN(1, gst_adapter_available(p.adapter)) ELSE len
  IN IF n = 0
     THEN [priv |-> p, pkts |-> <<>>, ret |-> "OK"]
     ELSE
       LET ts == IF timestamp = GST_CLOCK_TIME_NONE THEN auto_timestamp(p)
                 ELSE timestamp
           meta == gst_base_rtp_audio_payload_set_meta(p, n, ts)
           data == gst_adapter_copy(p.adapter, 0, n)
       IN [priv |-> [meta.priv EXCEPT !.adapter = gst_adapter_flush(@, n)],
           pkts |-> <<Packet(data, meta, res, path, call)>>,
           ret  |-> res]

\* mutant: the bytes of a packet the sink rejects stay in the adapter
gst_base_rtp_audio_payload_flush_keeps_rejected(p, len, timestamp, res, path, call) ==
  LET n == IF len = ALL THEN gst_adapter_available(p.adapter) ELSE len
  IN IF n = 0
     THEN [priv |-> p, pkts |-> <<>>, ret |-> "OK"]
     ELSE
       LET ts == IF timestamp = GST_CLOCK_TIME_NONE THEN auto_timestamp(p)
                 ELSE timestamp
           meta == gst_base_rtp_audio_payload_set_meta(p, n, ts)
           data == gst_adapter_copy(p.adapter, 0, n)
       IN [priv |-> IF res = "OK"
                    THEN [meta.priv EXCEPT !.adapter = gst_adapter_flush(@, n)]
                    ELSE p,
           pkts |-> <<Packet(data, meta, res, path, call)>>,
           ret  |-> res]

\* gst_base_rtp_audio_payload_flush: a packet from the first len bytes of the
\* adapter (ALL: every pending byte), which are flushed; nothing when len is 0.
gst_base_rtp_audio_payload_flush(p, len, timestamp, res, path, call) ==
  LET n == IF len = ALL THEN gst_adapter_available(p.adapter) ELSE len
  IN IF n = 0
     THEN [priv |-> p, pkts |-> <<>>, ret |-> "OK"]
     ELSE
       LET ts == IF timestamp = GST_CLOCK_TIME_NONE THEN auto_timestamp(p)
                 ELSE timestamp
           meta == gst_base_rtp_audio_payload_set_meta(p, n, ts)
           data == gst_adapter_copy(p.adapter, 0, n)
       IN [priv |-> [meta.priv EXCEPT !.adapter = gst_adapter_flush(@, n)],
           pkts |-> <<Packet(data, meta, res, path, call)>>,
           ret  |-> res]

\* res is the answer of the sink to the packet in pkts; without a packet the
\* sink is not asked, and res is fixed
answers(res, pkts) == pkts # <<>> \/ res = "OK"

\* the packets of a log that the sink rejected
NFail(log) == Cardinality({i \in 1..Len(log) : log[i].res = "FAIL"})

\* ------------------------------------------------------------------- Init
Init ==
  /\ payload = [frame_size |-> 0, frame_duration |-> 0, sample_size |-> 0]
  /\ priv = [get_lengths |-> "NULL", get_duration |-> "NULL", get_rtptime |-> "NULL",
             adapter |-> gst_adapter_new, fragment_size |-> 0, discont |-> FALSE, offset |-> 0]
  /\ basepayload \in Transports
  /\ upstream \in Upstreams
  /\ pc = "idle"
  /\ available = 0
  /\ payload_len = NoVal
  /\ min_payload_len = 0
  /\ max_payload_len = 0
  /\ align = 0
  /\ ret = "OK"
  /\ sent = <<>>
  /\ delivered = 0
  /\ dropped = 0
  /\ ndiscont = 0
  /\ chunks = <<>>

\* ---------------------------------------------------------- mode selectors
\* mutant: the selector does not test that no mode is selected yet
gst_base_rtp_audio_payload_set_frame_based_again ==
  /\ pc = "idle"
  /\ priv' = [priv EXCEPT !.get_lengths = "frame", !.get_duration = "frame",
                          !.get_rtptime = "frame"]
  /\ UNCHANGED <<payload, basepayload, upstream, pc, locals, ret, sent, delivered, dropped, ndiscont, chunks>>

gst_base_rtp_audio_payload_set_frame_based ==
  /\ pc = "idle"
  /\ IF priv.get_lengths = "NULL" /\ priv.get_duration = "NULL"
     THEN priv' = [priv EXCEPT !.get_lengths = "frame", !.get_duration = "frame",
                               !.get_rtptime = "frame"]
     ELSE priv' = priv
  /\ UNCHANGED <<payload, basepayload, upstream, pc, locals, ret, sent, delivered, dropped, ndiscont, chunks>>

gst_base_rtp_audio_payload_set_sample_based ==
  /\ pc = "idle"
  /\ IF priv.get_lengths = "NULL" /\ priv.get_duration = "NULL"
     THEN priv' = [priv EXCEPT !.get_lengths = "sample", !.get_duration = "sample",
                               !.get_rtptime = "sample"]
     ELSE priv' = priv
  /\ UNCHANGED <<payload, basepayload, upstream, pc, locals, ret, sent, delivered, dropped, ndiscont, chunks>>

\* --------------------------------------------------------- option setters
\* A child element calls the setter of the mode it selected (the usage the
\* class documents).  The setter of the other mode would only clear the
\* adapter, as FLUSH_STOP does, and change fields the selected mode never reads.
\* mutant: the setter leaves the pending bytes in the adapter
gst_base_rtp_audio_payload_set_frame_options_keeps_pending(frame_duration, frame_size) ==
  /\ pc = "idle"
  /\ priv.get_lengths = "frame"
  /\ payload' = [payload EXCEPT !.frame_duration = frame_duration,
                                !.frame_size = frame_size]
  /\ UNCHANGED <<priv, basepayload, upstream, pc, locals, ret, sent, delivered,
                 dropped, ndiscont, chunks>>

gst_base_rtp_audio_payload_set_frame_options(frame_duration, frame_size) ==
  /\ pc = "idle"
  /\ priv.get_lengths = "frame"
  /\ payload' = [payload EXCEPT !.frame_duration = frame_duration,
                                !.frame_size = frame_size]
  /\ priv' = [priv EXCEPT !.adapter = gst_adapter_clear(@)]
  /\ dropped' = dropped + gst_adapter_available(priv.adapter)
  /\ UNCHANGED <<basepayload, upstream, pc, locals, ret, sent, delivered, ndiscont, chunks>>

\* mutant: the bit-width is rounded up to the next multiple of 8
FragmentBitsRoundedUp(fragment_size) == ((fragment_size + 7) \div 8) * 8

\* while ((fragment_size % 8) != 0) fragment_size += fragment_size;
RECURSIVE FragmentBits(_)
FragmentBits(fragment_size) ==
  IF fragment_size % 8 # 0 THEN FragmentBits(fragment_size + fragment_size)
  ELSE fragment_size

gst_base_rtp_audio_payload_set_samplebits_options(sample_size) ==
  /\ pc = "idle"
  /\ priv.get_lengths = "sample"
  /\ payload' = [payload EXCEPT !.sample_size = sample_size]
  /\ priv' = [priv EXCEPT !.fragment_size = FragmentBits(sample_size) \div 8,
                          !.adapter = gst_adapter_clear(@)]
  /\ dropped' = dropped + gst_adapter_available(priv.adapter)
  /\ UNCHANGED <<basepayload, upstream, pc, locals, ret, sent, delivered, ndiscont, chunks>>

\* sample_size is in bits internally
gst_base_rtp_audio_payload_set_sample_options(sample_size) ==
  gst_base_rtp_audio_payload_set_samplebits_options(sample_size * 8)

\* ------------------------------------------------------------ handle_buffer
\* mutant: the fast path is taken although bytes are pending
fast_push_over_pending(avail, size, lengths) ==
  size >= lengths.min_payload_len /\ size <= lengths.max_payload_len

\* mutant: the fast path does not test the upper bound
fast_push_unbounded(avail, size, lengths) ==
  avail = 0 /\ size >= lengths.min_payload_len

\* if (available == 0 && (size >= min_payload_len && size <= max_payload_len))
fast_push(avail, size, lengths) ==
  avail = 0 /\ size >= lengths.min_payload_len /\ size <= lengths.max_payload_len

\* mutant: the refused chunk is reported as handled
config_error_returns_ok(size) ==
  /\ dropped' = dropped + size
  /\ ret' = "OK"
  /\ pc' = "idle"
  /\ UNCHANGED locals

\* config_error: the buffer is unref'd and GST_FLOW_ERROR returned
config_error(size) ==
  /\ dropped' = dropped + size
  /\ ret' = "ERROR"
  /\ pc' = "idle"
  /\ UNCHANGED locals

\* mutant: the geometry is checked before the discontinuity is looked at
gst_base_rtp_audio_payload_handle_buffer_checks_first(size, timestamp, discont, r_flush, r_push) ==
  /\ pc = "idle"
  /\ delivered + size <= MaxBytes
  /\ delivered' = delivered + size
  /\ ndiscont' = ndiscont + (IF discont THEN 1 ELSE 0)
  /\ UNCHANGED <<payload, basepayload, upstream>>
  /\ LET data == [i \in 1..size |-> delivered + i]
         buffer == [data |-> data, timestamp |-> timestamp]
         call == delivered + size
         \* the chunk, and the bytes it found pending after the discont flush
         chunk(pending) == [first |-> delivered + 1, size |-> size,
                            timestamp |-> timestamp, discont |-> discont,
                            pending |-> pending]
     IN
     IF priv.get_lengths = "NULL" \/ priv.get_duration = "NULL"
     THEN /\ config_error(size)
          /\ answers(r_flush, <<>>) /\ answers(r_push, <<>>)
          /\ chunks' = Append(chunks, chunk(gst_adapter_available(priv.adapter)))
          /\ UNCHANGED <<priv, sent>>
     ELSE
       LET flushed ==
             IF discont
             THEN gst_base_rtp_audio_payload_flush(priv, ALL, GST_CLOCK_TIME_NONE, r_flush,
                                                   "discont", call)
             ELSE [priv |-> priv, pkts |-> <<>>, ret |-> "OK"]
           p1 == IF discont THEN [flushed.priv EXCEPT !.discont = TRUE] ELSE priv
           lengths == get_lengths
       IN
       IF ~lengths.ok
       THEN /\ config_error(size)
            /\ answers(r_flush, <<>>) /\ answers(r_push, <<>>)
            /\ chunks' = Append(chunks, chunk(gst_adapter_available(priv.adapter)))
            /\ UNCHANGED <<priv, sent>>
       ELSE
         LET avail == gst_adapter_available(p1.adapter)
         IN
         IF fast_push(avail, size, lengths)
         THEN
           LET pushed ==
                 gst_base_rtp_audio_payload_push(p1, data, size, timestamp, r_push,
                                                 "fast", call)
           IN /\ answers(r_flush, flushed.pkts)
              /\ chunks' = Append(chunks, chunk(avail))
              /\ priv' = pushed.priv
              /\ sent' = (sent \o flushed.pkts) \o pushed.pkts
              /\ ret' = pushed.ret
              /\ pc' = "idle"
              /\ UNCHANGED <<locals, dropped>>
         ELSE
           /\ answers(r_flush, flushed.pkts) /\ answers(r_push, <<>>)
           /\ chunks' = Append(chunks, chunk(avail))
           /\ priv' = [p1 EXCEPT !.adapter = gst_adapter_push(@, buffer)]
           /\ sent' = sent \o flushed.pkts
           /\ ret' = flushed.ret
           /\ available' = avail + size
           /\ payload_len' = NoVal
           /\ min_payload_len' = lengths.min_payload_len
           /\ max_payload_len' = lengths.max_payload_len
           /\ align' = lengths.align
           /\ pc' = "loop"
           /\ UNCHANGED dropped
  /\ NFail(sent') <= MaxFail

\* gst_base_rtp_audio_payload_handle_buffer, from its entry to its return (the
\* configuration error, the fast push) or to the first test of its while loop.
\* size, timestamp and discont are the chunk's; r_flush and r_push are what the sink
\* answers to the packet of the discont flush and to the packet of the fast push.
gst_base_rtp_audio_payload_handle_buffer(size, timestamp, discont, r_flush, r_push) ==
  /\ pc = "idle"
  /\ delivered + size <= MaxBytes
  /\ delivered' = delivered + size
  /\ ndiscont' = ndiscont + (IF discont THEN 1 ELSE 0)
  /\ UNCHANGED <<payload, basepayload, upstream>>
  /\ LET data == [i \in 1..size |-> delivered + i]
         buffer == [data |-> data, timestamp |-> timestamp]
         call == delivered + size
         \* the chunk, and the bytes it found pending after the discont flush
         chunk(pending) == [first |-> delivered + 1, size |-> size,
                            timestamp |-> timestamp, discont |-> discont,
                            pending |-> pending]
     IN
     IF priv.get_lengths = "NULL" \/ priv.get_duration = "NULL"
     THEN /\ config_error(size)
          /\ answers(r_flush, <<>>) /\ answers(r_push, <<>>)
          /\ chunks' = Append(chunks, chunk(gst_adapter_available(priv.adapter)))
          /\ UNCHANGED <<priv, sent>>
     ELSE
       LET flushed ==
             IF discont
             THEN gst_base_rtp_audio_payload_flush(priv, ALL, GST_CLOCK_TIME_NONE, r_flush,
                                                   "discont", call)
             ELSE [priv |-> priv, pkts |-> <<>>, ret |-> "OK"]
           p1 == IF discont THEN [flushed.priv EXCEPT !.discont = TRUE] ELSE priv
           lengths == get_lengths
       IN
       IF ~lengths.ok
       THEN /\ config_error(size)
            /\ answers(r_flush, flushed.pkts) /\ answers(r_push, <<>>)
            /\ chunks' = Append(chunks, chunk(gst_adapter_available(p1.adapter)))
            /\ priv' = p1
            /\ sent' = sent \o flushed.pkts
       ELSE
         LET avail == gst_adapter_available(p1.adapter)
         IN
         IF fast_push(avail, size, lengths)
         THEN
           LET pushed ==
                 gst_base_rtp_audio_payload_push(p1, data, size, timestamp, r_push,
                                                 "fast", call)
           IN /\ answers(r_flush, flushed.pkts)
              /\ chunks' = Append(chunks, chunk(avail))
              /\ priv' = pushed.priv
              /\ sent' = (sent \o flushed.pkts) \o pushed.pkts
              /\ ret' = pushed.ret
              /\ pc' = "idle"
              /\ UNCHANGED <<locals, dropped>>
         ELSE
           /\ answers(r_flush, flushed.pkts) /\ answers(r_push, <<>>)
           /\ chunks' = Append(chunks, chunk(avail))
           /\ priv' = [p1 EXCEPT !.adapter = gst_adapter_push(@, buffer)]
           /\ sent' = sent \o flushed.pkts
           /\ ret' = flushed.ret
           /\ available' = avail + size
           /\ payload_len' = NoVal
           /\ min_payload_len' = lengths.min_payload_len
           /\ max_payload_len' = lengths.max_payload_len
           /\ align' = lengths.align
           /\ pc' = "loop"
           /\ UNCHANGED dropped
  /\ NFail(sent') <= MaxFail

\* one pass of   while (available >= min_payload_len) { ... }
\* res is what the sink answers to the packet, if one is built
handle_buffer_loop(res) ==
  /\ pc = "loop"
  /\ available >= min_payload_len
  /\ LET len == MIN(max_payload_len, ALIGN_DOWN(available, align))
         flushed == gst_base_rtp_audio_payload_flush(priv, len, GST_CLOCK_TIME_NONE, res,
                                                     "loop", delivered)
     IN /\ answers(res, flushed.pkts)
        /\ payload_len' = len
        /\ priv' = flushed.priv
        /\ sent' = sent \o flushed.pkts
        /\ ret' = flushed.ret
        /\ available' = available - len
  /\ NFail(sent') <= MaxFail
  /\ UNCHANGED <<payload, basepayload, upstream, pc, min_payload_len, max_payload_len, align,
                 delivered, dropped, ndiscont, chunks>>

\* the while test fails: return ret
handle_buffer_return ==
  /\ pc = "loop"
  /\ available < min_payload_len
  /\ pc' = "idle"
  /\ available' = 0
  /\ payload_len' = NoVal
  /\ min_payload_len' = 0
  /\ max_payload_len' = 0
  /\ align' = 0
  /\ UNCHANGED <<payload, priv, basepayload, upstream, ret, sent, delivered, dropped,
                 ndiscont, chunks>>

\* ------------------------------------------------------------- lifecycle
\* GST_STATE_CHANGE_PAUSED_TO_READY
gst_base_rtp_payload_audio_change_state ==
  /\ pc = "idle"
  /\ priv' = [priv EXCEPT !.adapter = gst_adapter_clear(@)]
  /\ dropped' = dropped + gst_adapter_available(priv.adapter)
  /\ UNCHANGED <<payload, basepayload, upstream, pc, locals, ret, sent, delivered,
                 ndiscont, chunks>>

\* mutant: the pending bytes are dropped at the end of the stream
handle_event_eos_clears(res) ==
  /\ pc = "idle"
  /\ res = "OK"
  /\ priv' = [priv EXCEPT !.adapter = gst_adapter_clear(@)]
  /\ UNCHANGED <<payload, basepayload, upstream, pc, locals, ret, sent, delivered,
                 dropped, ndiscont, chunks>>

\* GST_EVENT_EOS: flush remaining bytes in the adapter; the result is not used
handle_event_eos(res) ==
  /\ pc = "idle"
  /\ LET flushed == gst_base_rtp_audio_payload_flush(priv, ALL, GST_CLOCK_TIME_NONE, res,
                                                     "eos", 0)
     IN /\ answers(res, flushed.pkts)
        /\ priv' = flushed.priv
        /\ sent' = sent \o flushed.pkts
  /\ NFail(sent') <= MaxFail
  /\ UNCHANGED <<payload, basepayload, upstream, pc, locals, ret, delivered, dropped,
                 ndiscont, chunks>>

\* GST_EVENT_FLUSH_STOP
handle_event_flush_stop ==
  /\ pc = "idle"
  /\ priv' = [priv EXCEPT !.adapter = gst_adapter_clear(@)]
  /\ dropped' = dropped + gst_adapter_available(priv.adapter)
  /\ UNCHANGED <<payload, basepayload, upstream, pc, locals, ret, sent, delivered,
                 ndiscont, chunks>>

\* ------------------------------------------------------------------- Next
SetFrameOptions ==
  \E d \in FrameDurations, s \in FrameSizes :
    gst_base_rtp_audio_payload_set_frame_options(d, s)

SetSamplebitsOptions ==
  \E s \in SampleBits : gst_base_rtp_audio_payload_set_samplebits_options(s)

SetSampleOptions ==
  \E s \in SampleBytes : gst_base_rtp_audio_payload_set_sample_options(s)

HandleBuffer ==
  \E size \in 1..MaxBytes, timestamp \in BufferTimestamps, discont \in BOOLEAN,
     r1 \in SinkResults, r2 \in SinkResults :
    gst_base_rtp_audio_payload_handle_buffer(size, timestamp, discont, r1, r2)

HandleBufferLoop == \E res \in SinkResults : handle_buffer_loop(res)

HandleEventEos == \E res \in SinkResults : handle_event_eos(res)

Next ==
  \/ gst_base_rtp_audio_payload_set_frame_based
  \/ gst_base_rtp_audio_payload_set_sample_based
  \/ gst_base_rtp_payload_audio_change_state
  \/ handle_event_flush_stop
  \/ HandleEventEos
  \/ SetFrameOptions
  \/ SetSamplebitsOptions
  \/ SetSampleOptions
  \/ HandleBuffer
  \/ HandleBufferLoop
  \/ handle_buffer_return

Spec == Init /\ [][Next]_vars

\* The behaviours of an object in which only the mode is selected and the
\* sample options are set, with every sample width up to MaxSampleBits.
SetAnySamplebitsOptions ==
  \E s \in 0..MaxSampleBits : gst_base_rtp_audio_payload_set_samplebits_options(s)

NextOptions ==
  \/ gst_base_rtp_audio_payload_set_sample_based
  \/ SetAnySamplebitsOptions

SpecOptions == Init /\ [][NextOptions]_vars

\* =================================================================== claims
RECURSIVE SumLen(_)
\* the payload bytes of the packets of a log
SumLen(log) ==
  IF log = <<>> THEN 0 ELSE Len(Head(log).payload) + SumLen(Tail(log))

RECURSIVE Payloads(_)
\* the payloads of the packets of a log, one after the other
Payloads(log) ==
  IF log = <<>> THEN <<>> ELSE Head(log).payload \o Payloads(Tail(log))

\* the bytes of the chunks delivered so far, in arrival order
Delivered == [i \in 1..delivered |-> i]

\* the packets a step hands to the sink
NewPackets == (Len(sent) + 1)..Len(sent')

\* C1. Conservation: as long as no byte was discarded (no adapter was cleared
\* with bytes in it, no chunk was refused for its configuration), the payload
\* lengths of all packets handed to the sink plus the bytes pending in the
\* adapter add up to the bytes of all chunks delivered.
C1_Conservation ==
  dropped = 0 => SumLen(sent) + gst_adapter_available(priv.adapter) = delivered

\* C1: two packets were sent, of a chunk cut in the loop, and a byte is pending.
C1_Witness ==
  /\ dropped = 0
  /\ pc = "idle"
  /\ delivered = MaxBytes
  /\ \E i \in 1..Len(sent) : sent[i].path = "loop"
  /\ priv.adapter.data # <<>>

\* C2. Order preservation: as long as no byte was discarded, the payloads of
\* the packets in the order they were handed to the sink, followed by the
\* pending bytes, are the delivered chunks in arrival order.
C2_OrderPreserved ==
  dropped = 0 => Payloads(sent) \o priv.adapter.data = Delivered

\* C2: a chunk went through the fast path, a later one through the adapter
\* and left with the end-of-stream flush.
C2_Witness ==
  /\ dropped = 0
  /\ \E i, j \in 1..Len(sent) :
       /\ i < j
       /\ sent[i].path = "fast"
       /\ sent[j].path = "eos"

\* C3. Alignment invariant: every packet the slicing loop emits has a length
\* that is a multiple of align and lies between min_payload_len and
\* max_payload_len.  (After a pass of the loop, payload_len is the length of
\* the packet it emitted, 0 if it emitted none.)
C3_LoopPacketAligned ==
  (pc = "loop" /\ payload_len # NoVal /\ payload_len # 0) =>
     /\ payload_len % align = 0
     /\ min_payload_len <= payload_len
     /\ payload_len <= max_payload_len

\* C4. In frame mode every packet of the fast path and of the slicing loop
\* holds a whole number of frames: its length is a positive multiple of
\* frame_size.
C4_WholeFrames ==
  [][priv.get_lengths = "frame" =>
       \A j \in NewPackets :
         sent'[j].path \in {"fast", "loop"} =>
           /\ Len(sent'[j].payload) > 0
           /\ Len(sent'[j].payload) % payload.frame_size = 0]_vars

\* C5. Termination: the slicing loop never reaches a state where it goes on
\* without changing anything; while handle_buffer is in its loop a step that
\* changes the state (a pass that removes bytes, or the return) is possible.
C5_LoopTerminates ==
  pc = "loop" => ENABLED <<HandleBufferLoop \/ handle_buffer_return>>_vars

\* C6. A sink failure aborts the slicing loop: a packet of the loop that the
\* sink rejected is the last packet of its call of handle_buffer.
C6_SinkFailureAborts ==
  \A i \in 1..(Len(sent) - 1) :
    (sent[i].res = "FAIL" /\ sent[i].path = "loop")
      => sent[i + 1].call # sent[i].call

\* C7. handle_buffer reports the failure: when the call that just returned
\* handed a packet to the sink that the sink rejected, it did not return OK.
C7_SinkFailureReported ==
  (pc = "idle" /\ \E i \in 1..Len(sent) :
                    sent[i].call = delivered /\ sent[i].res = "FAIL")
    => ret # "OK"

\* the packets of a log that carry the marker bit and GST_BUFFER_FLAG_DISCONT
Marked(log) == {i \in 1..Len(log) : log[i].marker}

\* C8. Discontinuity propagation: the marked packets, with the one the
\* pending flag will mark, are never more than the discontinuous chunks, and
\* of the packets the loop cuts in one call only the first can be marked.
C8_DiscontOncePerChunk ==
  /\ Cardinality(Marked(sent)) + (IF priv.discont THEN 1 ELSE 0) <= ndiscont
  /\ \A i, j \in 1..Len(sent) :
       (i < j /\ sent[i].call = sent[j].call
              /\ sent[i].path = "loop" /\ sent[j].path = "loop")
         => ~sent[j].marker

\* C8: a discontinuous chunk was cut into packets: the first is marked, a
\* later one of the same call is not.
C8_Witness ==
  \E i, j \in 1..Len(sent) :
    /\ i < j
    /\ sent[i].call = sent[j].call
    /\ sent[i].path = "loop" /\ sent[j].path = "loop"
    /\ sent[i].marker
    /\ ~sent[j].marker

\* C9. Stop and flush-stop clear the adapter, the running offset and the
\* discont flag.
C9_ResetClearsAll ==
  [][(gst_base_rtp_payload_audio_change_state \/ handle_event_flush_stop) =>
       /\ priv'.adapter.data = <<>>
       /\ priv'.offset = 0
       /\ ~priv'.discont]_vars

\* C10. Running offset: priv->offset is the sum of the payload lengths of all
\* packets built, it never decreases, and the offset field of every packet is
\* the RTP time of the payload bytes of all packets built before it.
C10_RunningOffset ==
  [][/\ priv'.offset = SumLen(sent')
     /\ priv'.offset >= priv.offset
     /\ \A j \in NewPackets :
          sent'[j].offset = get_rtptime(priv, SumLen(SubSeq(sent', 1, j - 1)))]_vars

\* C10: a third packet was built after two others, and its offset field is
\* the RTP time of their bytes.
C10_Witness ==
  /\ Len(sent) = MaxBytes
  /\ sent[Len(sent)].offset > sent[1].offset
  /\ priv.offset = MaxBytes

\* the payload bytes of the packets of a log before packet i
Before(log, i) == SumLen(SubSeq(log, 1, i - 1))

\* the offset field of packet i is the one the geometry of this state gives:
\* the packet was built with it
BuiltWithGeometry(i) == sent[i].offset = get_rtptime(priv, Before(sent, i))

\* C11. Time-offset additivity: for two successive packets built with the
\* geometry of this state, the offset field of the later one is the offset
\* field of the earlier one plus the RTP time of the earlier one's payload
\* length.
C11_OffsetAdditive ==
  get_lengths.ok =>
    \A i \in 1..(Len(sent) - 1) :
      (BuiltWithGeometry(i) /\ BuiltWithGeometry(i + 1)) =>
        sent[i + 1].offset =
          sent[i].offset + get_rtptime(priv, Len(sent[i].payload))

\* C12. Upper bound on every packet: every packet handed to the sink, on the
\* fast path, in the slicing loop, by the discont flush and by the
\* end-of-stream flush, is built under a valid geometry and its payload is not
\* longer than the max_payload_len of that geometry and transport.
C12_PacketWithinMax ==
  [][\A j \in NewPackets :
       /\ get_lengths.ok
       /\ Len(sent'[j].payload) <= get_lengths.max_payload_len]_vars

\* C12: pending bytes left with a discont flush, later ones with the
\* end-of-stream flush.
C12_Witness ==
  \E i, j \in 1..Len(sent) :
    /\ sent[i].path = "discont"
    /\ sent[j].path = "eos"

\* the size of the chunk a step delivers, if it delivers one: the only size
\* with which the step can be a call of handle_buffer
StepSizes == (1..MaxBytes) \cap {delivered' - delivered}

\* the bytes of the chunk a step delivers
Chunk == [i \in 1..(delivered' - delivered) |-> delivered + i]

\* C13. Fast-path equivalence: a call of handle_buffer that finds the adapter
\* empty, a valid geometry and a chunk of min_payload_len to max_payload_len
\* bytes hands exactly one packet to the sink; its payload is the chunk's
\* bytes, its timestamp the chunk's timestamp, and the adapter is empty after.
C13_FastPath ==
  [][\A size \in StepSizes, timestamp \in BufferTimestamps, discont \in BOOLEAN,
        r1 \in SinkResults, r2 \in SinkResults :
       (/\ gst_base_rtp_audio_payload_handle_buffer(size, timestamp, discont, r1, r2)
        /\ gst_adapter_available(priv.adapter) = 0
        /\ priv.get_lengths # "NULL"
        /\ get_lengths.ok
        /\ get_lengths.min_payload_len <= size
        /\ size <= get_lengths.max_payload_len)
       => /\ Len(sent') = Len(sent) + 1
          /\ sent'[Len(sent')].payload = Chunk
          /\ sent'[Len(sent')].timestamp = timestamp
          /\ gst_adapter_available(priv'.adapter) = 0
          /\ pc' = "idle"]_vars

\* C13: the second chunk of a stamped stream went through the fast path and
\* its packet carries the chunk's timestamp.
C13_Witness ==
  /\ Len(sent) >= 2
  /\ sent[Len(sent)].path = "fast"
  /\ sent[Len(sent)].timestamp > 0
  /\ gst_adapter_available(priv.adapter) = 0

\* a chunk of size bytes leaves fewer than min_payload_len bytes accumulated
BelowMin(size) ==
  /\ priv.get_lengths # "NULL"
  /\ get_lengths.ok
  /\ gst_adapter_available(priv.adapter) + size < get_lengths.min_payload_len

\* end of stream: one packet with all pending bytes, none when there are none,
\* and the adapter is empty after
EosFlushesAll ==
  HandleEventEos =>
    /\ gst_adapter_available(priv'.adapter) = 0
    /\ IF gst_adapter_available(priv.adapter) = 0
       THEN sent' = sent
       ELSE /\ Len(sent') = Len(sent) + 1
            /\ sent'[Len(sent')].payload = priv.adapter.data

C15_ConfigurationError ==
  [][\A size \in StepSizes, timestamp \in BufferTimestamps, discont \in BOOLEAN,
        r1 \in SinkResults, r2 \in SinkResults :
       (/\ gst_base_rtp_audio_payload_handle_buffer(size, timestamp, discont, r1, r2)
        /\ (priv.get_lengths = "NULL" \/ ~get_lengths.ok))
       => /\ ret' = "ERROR"
          /\ pc' = "idle"
          /\ dropped' = dropped + size
          /\ sent' = sent
          /\ priv'.adapter = priv.adapter
          /\ priv'.offset = priv.offset]_vars

\* C15: a chunk was refused for the configuration, and after a valid geometry
\* was set a later chunk became a packet.
C15_Witness ==
  /\ dropped > 0
  /\ ret = "OK"
  /\ pc = "idle"
  /\ \E i \in 1..Len(sent) : sent[i].call = delivered /\ sent[i].call > dropped

\* C16. Bounds of the lengths: whenever get_lengths succeeds,
\* 1 <= align <= min_payload_len <= max_payload_len.
C16_LengthsOrdered ==
  (priv.get_lengths # "NULL" /\ get_lengths.ok) =>
     /\ 1 <= get_lengths.align
     /\ get_lengths.align <= get_lengths.min_payload_len
     /\ get_lengths.min_payload_len <= get_lengths.max_payload_len

\* the three strategies of a private struct
Strategies(p) == <<p.get_lengths, p.get_duration, p.get_rtptime>>

\* C17. The mode is fixed once selected: no step changes the strategies of an
\* object that has a mode, and the three strategies are always of one mode
\* (all frame, all sample, or all unset).
C17_ModeFixed ==
  [][/\ priv.get_lengths # "NULL" => Strategies(priv') = Strategies(priv)
     /\ Strategies(priv') \in {<<"NULL", "NULL", "NULL">>,
                               <<"frame", "frame", "frame">>,
                               <<"sample", "sample", "sample">>}]_vars

\* C17: a packet was built in sample mode, after steps in which the selector
\* of frame mode could be called.
C17_Witness ==
  /\ Strategies(priv) = <<"sample", "sample", "sample">>
  /\ sent # <<>>

\* C18 as stated. Fragment size: for every sample width above zero the
\* fragment size is the width rounded up to whole bytes, ceil(sample_size / 8).
C18_FragmentRoundedUp ==
  (priv.get_lengths = "sample" /\ payload.sample_size > 0) =>
     priv.fragment_size = (payload.sample_size + 7) \div 8

\* C18 as amended. Fragment size: for every sample width above zero the
\* fragment size is the smallest number of bytes, at least one, that is a
\* whole number of samples.
C18_FragmentWholeSamples ==
  (priv.get_lengths = "sample" /\ payload.sample_size > 0) =>
     /\ priv.fragment_size >= 1
     /\ (priv.fragment_size * 8) % payload.sample_size = 0
     /\ \A bytes \in 1..(priv.fragment_size - 1) :
          (bytes * 8) % payload.sample_size # 0

\* C18: samples of 12 bits: the fragment is 3 bytes, two samples, not the 2
\* bytes that cover one sample.
C18_Witness ==
  /\ priv.get_lengths = "sample"
  /\ payload.sample_size = 12
  /\ priv.fragment_size = 3

\* the chunk of the call of handle_buffer that is running or ran last
LastChunk == chunks[Len(chunks)]

\* C19. Automatic timestamps: every packet the slicing loop cuts from a chunk
\* that was pushed into an empty adapter carries, when the chunk has a
\* timestamp, that timestamp plus the duration of the chunk's bytes flushed
\* before the packet (the timestamp itself for the first packet), and no
\* timestamp when the chunk has none and none was recorded before.
C19_AutoTimestamp ==
  [][\A j \in NewPackets :
       (sent'[j].path = "loop" /\ LastChunk.pending = 0) =>
         sent'[j].timestamp =
           IF GST_CLOCK_TIME_IS_VALID(LastChunk.timestamp)
           THEN LastChunk.timestamp
                  + get_duration(priv, Head(sent'[j].payload) - LastChunk.first)
           ELSE GST_CLOCK_TIME_NONE]_vars

\* C19: a chunk with a timestamp was cut into packets; the first carries the
\* chunk's timestamp, a later one a later timestamp.
C19_Witness ==
  \E i, j \in 1..Len(sent) :
    /\ i < j
    /\ sent[i].call = sent[j].call
    /\ sent[i].path = "loop" /\ sent[j].path = "loop"
    /\ sent[i].call = LastChunk.first + LastChunk.size - 1
    /\ LastChunk.pending = 0
    /\ sent[i].timestamp = LastChunk.timestamp
    /\ sent[j].timestamp > sent[i].timestamp

\* no packet holds a byte delivered before a discontinuous chunk together with
\* a byte of that chunk or of a later one
NoStraddle ==
  \A c \in 1..Len(chunks), i \in 1..Len(sent) :
    chunks[c].discont =>
      ~ /\ Head(sent[i].payload) < chunks[c].first
        /\ sent[i].payload[Len(sent[i].payload)] >= chunks[c].first

\* C20. No packet straddles a discontinuity: a discontinuous chunk that
\* arrives on pending bytes makes handle_buffer hand exactly these bytes to
\* the sink as one packet, before any packet with a byte of the chunk, and no
\* packet ever holds bytes from both sides of the start of a discontinuous
\* chunk.
C20_NoStraddle ==
  [][/\ NoStraddle'
     /\ (/\ Len(chunks') = Len(chunks) + 1
         /\ chunks'[Len(chunks')].discont
         /\ gst_adapter_available(priv.adapter) > 0)
        => /\ Len(sent') > Len(sent)
           /\ sent'[Len(sent) + 1].payload = priv.adapter.data]_vars

\* C20: the bytes pending before a discontinuous chunk left as one packet, and
\* a later packet starts with the first byte of that chunk.
C20_Witness ==
  \E c \in 1..Len(chunks), i, j \in 1..Len(sent) :
    /\ chunks[c].discont
    /\ i < j
    /\ sent[i].path = "discont"
    /\ sent[i].payload[Len(sent[i].payload)] = chunks[c].first - 1
    /\ Head(sent[j].payload) = chunks[c].first

\* the last byte of a packet
LastByte(pkt) == pkt.payload[Len(pkt.payload)]

\* C21. A rejected packet is still consumed: when the sink rejects a packet
\* that flush built, the running offset has advanced over the packet, the
\* adapter holds only bytes that followed the packet's bytes, and no other
\* packet handed to the sink holds any of them.
C21_RejectedConsumed ==
  [][\A j \in NewPackets :
       (sent'[j].res = "FAIL" /\ sent'[j].path \in {"loop", "discont", "eos"}) =>
         /\ priv'.offset >= Before(sent', j) + Len(sent'[j].payload)
         /\ priv'.offset = priv.offset + SumLen(SubSeq(sent', Len(sent) + 1, Len(sent')))
         /\ \A k \in 1..Len(priv'.adapter.data) :
              priv'.adapter.data[k] > LastByte(sent'[j])
         /\ \A i \in 1..Len(sent') :
              i # j => \A k \in 1..Len(sent'[i].payload) :
                         \/ sent'[i].payload[k] < Head(sent'[j].payload)
                         \/ sent'[i].payload[k] > LastByte(sent'[j])]_vars

\* C21: the sink rejected a packet of the slicing loop, and the next packet
\* starts with the byte after it.
C21_Witness ==
  \E i \in 1..(Len(sent) - 1) :
    /\ sent[i].res = "FAIL"
    /\ sent[i].path = "loop"
    /\ Head(sent[i + 1].payload) = LastByte(sent[i]) + 1

\* C22. Invalid geometry implies an empty adapter: in every state in which
\* get_lengths would fail (no mode selected, or a zero frame size, frame
\* duration or sample width in the selected mode) nothing is pending, so the
\* discont flush that handle_buffer runs before its configuration check
\* builds no packet.
C22_InvalidGeometryEmpty ==
  (priv.get_lengths = "NULL" \/ ~get_lengths.ok) =>
     /\ gst_adapter_available(priv.adapter) = 0
     /\ gst_base_rtp_audio_payload_flush(priv, ALL, GST_CLOCK_TIME_NONE, "OK",
                                         "discont", 0).pkts = <<>>

\* C22: after packets were built the geometry of the selected mode was set to
\* zero, and a discontinuous chunk was refused.
C22_Witness ==
  /\ priv.get_lengths # "NULL"
  /\ ~get_lengths.ok
  /\ sent # <<>>
  /\ pc = "idle"
  /\ ret = "ERROR"
  /\ chunks # <<>>
  /\ LastChunk.discont
  /\ LastChunk.first + LastChunk.size - 1 = delivered

\* C23. A discontinuous chunk that is refused because the geometry of the
\* selected mode is zero sets the discont flag, and one that is refused because
\* no mode is selected leaves the flag as it was; a set flag stays set while
\* no packet is built and the object is not reset, and the first packet built
\* then carries the marker.
C23_DiscontOnConfigError ==
  [][/\ \A size \in StepSizes, timestamp \in BufferTimestamps,
           r1 \in SinkResults, r2 \in SinkResults :
          gst_base_rtp_audio_payload_handle_buffer(size, timestamp, TRUE, r1, r2) =>
            IF priv.get_lengths = "NULL"
            THEN priv'.discont = priv.discont /\ ret' = "ERROR"
            ELSE ~get_lengths.ok =>
                   priv'.discont /\ ret' = "ERROR" /\ sent' = sent
     /\ (/\ priv.discont
         /\ sent' = sent
         /\ ~(gst_base_rtp_payload_audio_change_state \/ handle_event_flush_stop))
        => priv'.discont
     /\ (priv.discont /\ sent' # sent) => sent'[Len(sent) + 1].marker]_vars

\* C23: the one discontinuous chunk of the stream was just refused for a zero
\* geometry of the selected mode, and the discont flag is set.
C23_Witness ==
  /\ priv.get_lengths # "NULL"
  /\ ~get_lengths.ok
  /\ pc = "idle"
  /\ ret = "ERROR"
  /\ ndiscont = 1
  /\ chunks # <<>>
  /\ LastChunk.discont
  /\ LastChunk.first + LastChunk.size - 1 = delivered
  /\ priv.discont

====
